---- MODULE Spec2Model ----
(***************************************************************************)
(* fulgurite: the PhyloNode / PhyloTree binary tree of src/fulgurite/tree.py *)
(* and its topology operators (attach, detach, swap, regraft,               *)
(* prune_and_regraft), over the anytree.NodeMixin parent/children protocol. *)
(* Nodes live in an arena 1..ArenaSize; a node that has not been allocated  *)
(* yet carries the field values PhyloNode.__init__ gives a bare PhyloNode(). *)
(***************************************************************************)
EXTENDS Integers, Sequences, FiniteSets, TLC

\* How many PhyloNode objects the topology operators may create after the build.
MaxFresh == 2
\* How many topology operator calls a run makes after the build.
MaxOps == 2

\* Python's None as a node reference, as a branch length and as a state.
None == 0
NoLength == -1
NoState == -1
\* Python's None as a label (newick gives unnamed nodes the name None).
NoLabel == "None"

(***************************************************************************)
(* Parsed Newick inputs (newick.loads(s)[0]): node 1 is the root, name and  *)
(* length per node, descendants in order.  newick's Node.length is a float  *)
(* (0.0 when the string gives none); lengths are counted in whole units.    *)
(***************************************************************************)
\* "((A:1,B:1):1,C:2)"
Cherry3 ==
  [name        |-> <<NoLabel, NoLabel, "C", "A", "B">>,
   length      |-> <<0, 1, 2, 1, 1>>,
   descendants |-> << <<2, 3>>, <<4, 5>>, <<>>, <<>>, <<>> >>]

\* "(((A:1,B:1):1,C:2):1,D:3)"
Ladder4 ==
  [name        |-> <<NoLabel, NoLabel, "D", NoLabel, "C", "A", "B">>,
   length      |-> <<0, 1, 3, 1, 2, 1, 1>>,
   descendants |-> << <<2, 3>>, <<4, 5>>, <<>>, <<6, 7>>, <<>>, <<>>, <<>> >>]

\* "((A:1,B:1):1,(C:1,D:1):2)"
Balanced4 ==
  [name        |-> <<NoLabel, NoLabel, NoLabel, "A", "B", "C", "D">>,
   length      |-> <<0, 1, 2, 1, 1, 1, 1>>,
   descendants |-> << <<2, 3>>, <<4, 5>>, <<6, 7>>, <<>>, <<>>, <<>>, <<>> >>]

\* "((A:1):1,B:2)": an internal node with one child
Unary3 ==
  [name        |-> <<NoLabel, NoLabel, "B", "A">>,
   length      |-> <<0, 1, 2, 1>>,
   descendants |-> << <<2, 3>>, <<4>>, <<>>, <<>> >>]

\* "(A:1,B:1,C:1)": a root with three children
Ternary3 ==
  [name        |-> <<NoLabel, "A", "B", "C">>,
   length      |-> <<0, 1, 1, 1>>,
   descendants |-> << <<2, 3, 4>>, <<>>, <<>>, <<>> >>]

NewickInputs == {Cherry3, Ladder4, Balanced4, Unary3, Ternary3}

\* Every parsed node has no or two descendants.
ParsedBinary(T) ==
  \A i \in 1..Len(T.descendants) : Len(T.descendants[i]) \in {0, 2}

\* The states argument of from_string: a dict label -> state index (<< >> is None).
Labels == {"A", "B", "C", "D"}
NoStates == [l \in {} |-> 0]
AllTips == [l \in {"A", "B", "C", "D"} |-> CASE l = "A" -> 0 [] l = "B" -> 1
                                             [] l = "C" -> 0 [] OTHER -> 2]
SomeTips == [l \in {"A", "C"} |-> IF l = "A" THEN 1 ELSE 0]
StatesInputs == {NoStates, AllTips, SomeTips}

\* The calls of PhyloTree.from_string the runs start from: every tree without
\* states, and the smallest binary tree with each state assignment.
BuildInputs ==
  (NewickInputs \X {NoStates}) \cup ({Cherry3} \X {AllTips, SomeTips})

LargestInput ==
  CHOOSE k \in 1..20 : /\ \E T \in NewickInputs : Len(T.name) = k
                       /\ \A T \in NewickInputs : Len(T.name) <= k
ArenaSize == LargestInput + MaxFresh
Nodes == 1..ArenaSize

VARIABLES
  pc,          \* "start" before from_string, "built" after
  input,       \* the parsed Newick tree given to from_string
  parent,      \* NodeMixin.parent of every node (None: a root)
  children,    \* NodeMixin.children of every node, in order
  label,       \* PhyloNode.label
  length,      \* PhyloNode.length
  state,       \* PhyloNode.state
  likelihoods, \* PhyloNode.likelihoods
  alloc,       \* number of PhyloNode objects created so far
  ops,         \* number of topology operator calls made so far
  root,        \* PhyloTree.root
  nodes,       \* PhyloTree.nodes
  states,      \* PhyloTree.states
  last         \* the last call: operator, arguments, what it raised, what it returned

\* mkmodel.make_transition_matrix(Q, k)
VARIABLES
  mk_pc,       \* "off", "loop" (inside for i in range(k)), "done" (returned)
  mk_Q,        \* the argument Q
  mk_k,        \* the argument k
  mk_i,        \* the loop variable i
  rows         \* the list rows

mkVars == <<mk_pc, mk_Q, mk_k, mk_i, rows>>

\* make_transition_matrix is not running.
MkOff == mk_pc = "off" /\ mk_Q = 0 /\ mk_k = 0 /\ mk_i = 0 /\ rows = <<>>

\* mcmc.sample(tree, samples, weight)
VARIABLES
  s_pc,        \* "off", "start", "propose", "decide", "done"
  samples,     \* the argument samples
  s_i,         \* the loop variable i
  qcurrent,    \* the chain's current rate
  qproposal,   \* the rate proposed in this iteration
  lcurrent,    \* likelihood of qcurrent
  lproposal,   \* likelihood of qproposal
  posterior,   \* the list posterior
  likelihood   \* the list likelihood

rateVars == <<s_pc, samples, s_i, qcurrent, qproposal, lcurrent, lproposal,
              posterior, likelihood>>

\* sample is not running.
RateOff ==
  /\ s_pc = "off" /\ samples = 0 /\ s_i = 0
  /\ qcurrent = 0 /\ qproposal = 0 /\ lcurrent = 0 /\ lproposal = 0
  /\ posterior = <<>> /\ likelihood = <<>>

\* mcmc.sample_topology(tree, samples)
VARIABLES
  t_pc,         \* "off", "loop", "decide", "done", "raised"
  t_samples,    \* the argument samples
  t_i,          \* the loop variable i
  current,      \* the chain's current tree
  workingcopy,  \* the proposal of this iteration
  t_lcurrent,   \* likelihood of current
  t_lproposal,  \* likelihood of workingcopy
  t_posterior,  \* the list posterior
  t_likelihood  \* the list likelihood

topoVars == <<t_pc, t_samples, t_i, current, workingcopy, t_lcurrent,
              t_lproposal, t_posterior, t_likelihood>>

\* sample_topology is not running.
TopoOff ==
  /\ t_pc = "off" /\ t_samples = 0 /\ t_i = 0
  /\ current = None /\ workingcopy = None
  /\ t_lcurrent = 0 /\ t_lproposal = 0
  /\ t_posterior = <<>> /\ t_likelihood = <<>>

\* one likelihood pass: likelihood.tree_likelihood or mkmodel.subtree_likelihood
VARIABLES
  p_pc,         \* "off", "run", "returned", "raised"
  p_engine,     \* "queue": likelihood.tree_likelihood, "level": mkmodel.subtree_likelihood
  p_tree,       \* the tree the pass runs on
  p_tips,       \* tip_states: the dict label -> state index
  vec,          \* the likelihoods vector per node (<< >>: none)
  queue,        \* the deque of tree_likelihood / the rest of the reverse level walk
  p_node,       \* the node visited last
  p_log,        \* the nodes whose vector was assigned, in order
  p_err,        \* what the pass raised
  p_result      \* what the pass returned

passVars == <<p_pc, p_engine, p_tree, p_tips, vec, queue, p_node, p_log, p_err,
              p_result>>

\* no likelihood pass is running.
PassOff ==
  /\ p_pc = "off" /\ p_engine = "none" /\ p_tree = None /\ p_tips = << >>
  /\ vec = << >> /\ queue = << >> /\ p_node = None /\ p_log = << >>
  /\ p_err = "none" /\ p_result = None

otherVars == <<mkVars, rateVars, topoVars, passVars>>
OthersOff == MkOff /\ RateOff /\ TopoOff /\ PassOff

vars == <<pc, input, parent, children, label, length, state, likelihoods,
          alloc, ops, root, nodes, states, last, otherVars>>

(***************************************************************************)
(* anytree.NodeMixin on a heap h = [parent, children].                      *)
(***************************************************************************)
Heap == [parent |-> parent, children |-> children]

RECURSIVE Ancestors(_, _)
Ancestors(h, n) ==
  IF h.parent[n] = None THEN {}
  ELSE {h.parent[n]} \cup Ancestors(h, h.parent[n])

Remove(s, x) == SelectSeq(s, LAMBDA y : y # x)

Reverse(s) == [i \in 1..Len(s) |-> s[Len(s) + 1 - i]]

\* node.parent = value: the loop check, then __detach and __attach (append).
SetParent(h, n, p) ==
  IF h.parent[n] = p THEN [err |-> "none", h |-> h]
  ELSE IF p # None /\ (p = n \/ n \in Ancestors(h, p))
    THEN [err |-> "LoopError", h |-> h]
  ELSE
    LET old == h.parent[n]
        c1  == IF old = None THEN h.children
               ELSE [h.children EXCEPT ![old] = Remove(@, n)]
        c2  == IF p = None THEN c1 ELSE [c1 EXCEPT ![p] = Append(@, n)]
    IN [err |-> "none",
        h   |-> [parent |-> [h.parent EXCEPT ![n] = p], children |-> c2]]

\* del node.children: every child's parent becomes None.
DelChildren(h, n) ==
  [parent   |-> [m \in Nodes |-> IF h.parent[m] = n THEN None ELSE h.parent[m]],
   children |-> [h.children EXCEPT ![n] = <<>>]]

\* for child in children: child.parent = node, stopping at the first error
RECURSIVE AttachEach(_, _, _, _)
AttachEach(h, n, kids, i) ==
  IF i > Len(kids) THEN [err |-> "none", h |-> h]
  ELSE LET r == SetParent(h, kids[i], n)
       IN IF r.err # "none" THEN r ELSE AttachEach(r.h, n, kids, i + 1)

\* node.children = kids: delete the old children, attach the new ones in order;
\* on an exception put the old children back and raise it again.
SetChildren(h, n, kids) ==
  IF \E i, j \in 1..Len(kids) : i # j /\ kids[i] = kids[j]
    THEN [err |-> "TreeError", h |-> h]
  ELSE
    LET old == h.children[n]
        r   == AttachEach(DelChildren(h, n), n, kids, 1)
    IN IF r.err = "none" THEN r
       ELSE [err |-> r.err,
             h   |-> AttachEach(DelChildren(r.h, n), n, old, 1).h]

\* anytree.PreOrderIter(n)
RECURSIVE PreOrder(_, _)
RECURSIVE PreOrderSeq(_, _, _)
PreOrderSeq(h, kids, i) ==
  IF i > Len(kids) THEN <<>>
  ELSE PreOrder(h, kids[i]) \o PreOrderSeq(h, kids, i + 1)
PreOrder(h, n) == <<n>> \o PreOrderSeq(h, h.children[n], 1)

Range(s) == {s[i] : i \in 1..Len(s)}

\* the nodes reachable from n, n included
Subtree(h, n) == Range(PreOrder(h, n))

\* NodeMixin.is_root, is_leaf, siblings, leaves
IsRoot(h, n) == h.parent[n] = None
IsLeaf(h, n) == Len(h.children[n]) = 0
Siblings(h, n) ==
  IF h.parent[n] = None THEN <<>> ELSE Remove(h.children[h.parent[n]], n)
Leaves(h, n) == {m \in Subtree(h, n) : IsLeaf(h, m)}

(***************************************************************************)
(* PhyloNode                                                                *)
(***************************************************************************)
\* PhyloNode.__eq__: children tuples (element by element, identity first),
\* label and length.
RECURSIVE NodeEq(_, _, _)
NodeEq(h, n, m) ==
  /\ Len(h.children[n]) = Len(h.children[m])
  /\ \A i \in 1..Len(h.children[n]) :
       \/ h.children[n][i] = h.children[m][i]
       \/ NodeEq(h, h.children[n][i], h.children[m][i])
  /\ label[n] = label[m]
  /\ length[n] = length[m]

\* PhyloNode.equal: __eq__ on the zipped pre-order walks of the two trees
Equal(h, n, m) ==
  LET a == PreOrder(h, n)
      b == PreOrder(h, m)
      k == IF Len(a) < Len(b) THEN Len(a) ELSE Len(b)
  IN \A i \in 1..k : NodeEq(h, a[i], b[i])

\* PhyloNode.is_binary
IsBinary(h, n) ==
  \A m \in Subtree(h, n) : IsLeaf(h, m) \/ Len(h.children[m]) = 2

\* tuple.index(x): the first position whose element is x or equals x
IndexOf(h, s, x) ==
  CHOOSE i \in 1..Len(s) :
    /\ (s[i] = x \/ NodeEq(h, s[i], x))
    /\ \A j \in 1..(i - 1) : ~(s[j] = x \/ NodeEq(h, s[j], x))

(***************************************************************************)
(* PhyloNode topology operators, as functions of the heap.  Each returns   *)
(* what it raised (err), the heap it leaves behind, and what it returned.  *)
(***************************************************************************)
\* PhyloNode.attach(self, a, b):
\*   a.children = [PhyloNode(children=a.children), b]
\* The new node is al + 1; it takes a's children only when a has any.
NodeAttach(h, al, a, b) ==
  LET new == al + 1
      h1  == IF Len(h.children[a]) > 0
               THEN SetChildren(h, new, h.children[a]).h
               ELSE h
      r   == SetChildren(h1, a, <<new, b>>)
  IN [err |-> r.err, h |-> r.h, alloc |-> new]

\* PhyloNode.detach(self, subtree)
NodeDetach(h, subtree) ==
  IF IsRoot(h, subtree)
    THEN [err |-> "PhyloNodeError", h |-> h, ret |-> None]
  ELSE IF Siblings(h, subtree) = <<>>
    THEN [err |-> "IndexError", h |-> h, ret |-> None]
  ELSE
    LET sibling     == Siblings(h, subtree)[1]
        par         == h.parent[subtree]
        grandparent == h.parent[par]
        h1 == SetParent(h, subtree, None).h
        h2 == SetParent(h1, par, None).h
        r3 == SetParent(h2, sibling, grandparent)
    IN [err |-> r3.err, h |-> r3.h,
        ret |-> IF grandparent # None THEN grandparent ELSE sibling]

\* if node.parent.children.index(node) != index:
\*     node.parent.children = node.parent.children[::-1]
FixOrder(h, node, index) ==
  LET p == h.parent[node]
  IN IF IndexOf(h, h.children[p], node) # index
       THEN SetChildren(h, p, Reverse(h.children[p])).h
       ELSE h

\* PhyloNode.swap(self, a, b)
NodeSwap(h, a, b) ==
  IF IsRoot(h, a) \/ IsRoot(h, b)
    THEN [err |-> "PhyloNodeError", h |-> h]
  ELSE IF NodeEq(h, h.parent[a], h.parent[b])
    THEN [err |-> "PhyloNodeError", h |-> h]
  ELSE
    LET ia        == IndexOf(h, h.children[h.parent[a]], a)
        ib        == IndexOf(h, h.children[h.parent[b]], b)
        oldparent == h.parent[b]
        r1        == SetParent(h, b, h.parent[a])
        r2        == SetParent(r1.h, a, oldparent)
    IN IF r1.err # "none" THEN r1
       ELSE IF r2.err # "none" THEN r2
       ELSE [err |-> "none", h |-> FixOrder(FixOrder(r2.h, b, ia), a, ib)]

(***************************************************************************)
(* PhyloTree                                                                *)
(***************************************************************************)
\* loc in self.nodes: list membership is identity or __eq__
InNodes(h, n) ==
  \E i \in 1..Len(nodes) : nodes[i] = n \/ NodeEq(h, nodes[i], n)

\* PhyloTree.attach(subtree, loc)
TreeAttachResult(h, al, rt, subtree, loc) ==
  IF ~InNodes(h, loc)
    THEN [err |-> "PhyloNodeError", h |-> h, alloc |-> al, root |-> rt]
  ELSE LET r == NodeAttach(h, al, loc, subtree)
       IN [err |-> r.err, h |-> r.h, alloc |-> r.alloc, root |-> rt]

\* PhyloTree.detach(subtree): self.root = self.root.detach(subtree)
TreeDetachResult(h, al, rt, subtree) ==
  IF ~InNodes(h, subtree)
    THEN [err |-> "PhyloNodeError", h |-> h, alloc |-> al, root |-> rt]
  ELSE LET r == NodeDetach(h, subtree)
       IN [err |-> r.err, h |-> r.h, alloc |-> al,
           root |-> IF r.err = "none" THEN r.ret ELSE rt]

\* PhyloTree.regraft(subtree, loc): self.detach(subtree); self.attach(subtree, loc)
TreeRegraftResult(h, al, rt, subtree, loc) ==
  LET d == TreeDetachResult(h, al, rt, subtree)
  IN IF d.err # "none" THEN d
     ELSE TreeAttachResult(d.h, d.alloc, d.root, subtree, loc)

\* PhyloNode.prune_and_regraft(self) with the two random.choice draws given:
\* subtree among the non-root nodes under self, rejoin_at among the nodes under
\* what detach returned.  The caller keeps the returned node as its tree.
PruneAndRegraftResult(h, al, self, subtree, rejoin_at) ==
  LET d == NodeDetach(h, subtree)
  IN IF d.err # "none"
       THEN [err |-> d.err, h |-> d.h, alloc |-> al, root |-> self]
     ELSE LET r == NodeAttach(d.h, al, rejoin_at, subtree)
          IN [err |-> r.err, h |-> r.h, alloc |-> r.alloc, root |-> d.ret]

(***************************************************************************)
(* PhyloNode.from_string                                                    *)
(***************************************************************************)
\* fromnode(n, p): a new PhyloNode under p carrying n's length and name
FromNode(b, T, n, p) ==
  LET id == b.alloc + 1
  IN [parent   |-> [b.parent EXCEPT ![id] = p],
      children |-> IF p = None THEN b.children
                   ELSE [b.children EXCEPT ![p] = Append(@, id)],
      label    |-> [b.label EXCEPT ![id] = T.name[n]],
      length   |-> [b.length EXCEPT ![id] = T.length[n]],
      alloc    |-> id]

\* for c in newick_n.descendants: stack.append((c, fromnode(c, phylo_n)))
RECURSIVE PushDescendants(_, _, _, _, _, _)
PushDescendants(b, T, stack, newick_n, phylo_n, i) ==
  IF i > Len(T.descendants[newick_n]) THEN [b |-> b, stack |-> stack]
  ELSE LET c  == T.descendants[newick_n][i]
           b1 == FromNode(b, T, c, phylo_n)
       IN PushDescendants(b1, T, Append(stack, <<c, b1.alloc>>),
                          newick_n, phylo_n, i + 1)

\* while stack: newick_n, phylo_n = stack.pop(); ...
RECURSIVE BuildLoop(_, _, _)
BuildLoop(b, T, stack) ==
  IF stack = <<>> THEN b
  ELSE LET top == stack[Len(stack)]
           r   == PushDescendants(b, T, SubSeq(stack, 1, Len(stack) - 1),
                                  top[1], top[2], 1)
       IN BuildLoop(r.b, T, r.stack)

EmptyArena ==
  [parent   |-> [n \in Nodes |-> None],
   children |-> [n \in Nodes |-> <<>>],
   label    |-> [n \in Nodes |-> NoLabel],
   length   |-> [n \in Nodes |-> NoLength],
   alloc    |-> 0]

\* if states: for node in PreOrderIter(phylo_root):
\*     if node.label in states: node.state = states[node.label]
AttachStates(b, st) ==
  [n \in Nodes |->
     IF st # NoStates /\ n <= b.alloc /\ b.label[n] \in DOMAIN st
       THEN st[b.label[n]] ELSE NoState]

FromString(T, st) ==
  LET b0 == FromNode(EmptyArena, T, 1, None)
      b  == BuildLoop(b0, T, << <<1, b0.alloc>> >>)
  IN [parent |-> b.parent, children |-> b.children, label |-> b.label,
      length |-> b.length, alloc |-> b.alloc, root |-> 1,
      state |-> AttachStates(b, st),
      likelihoods |-> [n \in Nodes |-> <<>>]]

(***************************************************************************)
(* State machine                                                            *)
(***************************************************************************)
NoCall == [op |-> "none", x |-> None, y |-> None, err |-> "none", ret |-> None]

Init ==
  /\ pc = "start"
  /\ \E call \in BuildInputs : input = call[1] /\ states = call[2]
  /\ parent = [n \in Nodes |-> None]
  /\ children = [n \in Nodes |-> <<>>]
  /\ label = [n \in Nodes |-> NoLabel]
  /\ length = [n \in Nodes |-> NoLength]
  /\ state = [n \in Nodes |-> NoState]
  /\ likelihoods = [n \in Nodes |-> <<>>]
  /\ alloc = 0
  /\ ops = 0
  /\ root = None
  /\ nodes = <<>>
  /\ last = NoCall
  /\ OthersOff

treeVars == <<pc, input, parent, children, label, length, state, likelihoods,
              alloc, ops, root, nodes, states, last>>

\* No tree is being built or edited.
TreeOff ==
  /\ pc = "off"
  /\ input = Cherry3
  /\ states = NoStates
  /\ parent = [n \in Nodes |-> None]
  /\ children = [n \in Nodes |-> <<>>]
  /\ label = [n \in Nodes |-> NoLabel]
  /\ length = [n \in Nodes |-> NoLength]
  /\ state = [n \in Nodes |-> NoState]
  /\ likelihoods = [n \in Nodes |-> <<>>]
  /\ alloc = 0
  /\ ops = 0
  /\ root = None
  /\ nodes = <<>>
  /\ last = NoCall

\* what a run of one part of the program leaves alone
exceptMk == <<treeVars, rateVars, topoVars, passVars>>
exceptRate == <<treeVars, mkVars, topoVars, passVars>>
exceptTopo == <<treeVars, mkVars, rateVars, passVars>>
exceptPass == <<treeVars, mkVars, rateVars, topoVars>>

\* PhyloTree.from_string(newickstr, states), with PhyloTree.__init__
Build ==
  /\ pc = "start"
  /\ LET t == FromString(input, states)
     IN /\ parent' = t.parent
        /\ children' = t.children
        /\ label' = t.label
        /\ length' = t.length
        /\ state' = t.state
        /\ likelihoods' = t.likelihoods
        /\ alloc' = t.alloc
        /\ root' = t.root
        /\ nodes' = PreOrder([parent |-> t.parent, children |-> t.children], t.root)
  /\ pc' = "built"
  /\ last' = [NoCall EXCEPT !.op = "from_string", !.ret = 1]
  /\ UNCHANGED <<input, states, ops, otherVars>>

Allocated == 1..alloc

\* The nodes a caller can name.  A PhyloNode that attach created and that has
\* neither a parent nor children is referenced by nothing.
Referable ==
  {n \in Allocated :
     ~(n > Len(input.name) /\ parent[n] = None /\ children[n] = <<>>)}

\* the attach family creates one PhyloNode per call
CanAllocate == alloc < Len(input.name) + MaxFresh

\* The call's outcome becomes the state.  last keeps the arguments of a call
\* that touched the tree; a call that raised before touching anything leaves
\* only its name and its exception.
Apply(r, call) ==
  /\ ops < MaxOps
  /\ parent' = r.h.parent
  /\ children' = r.h.children
  /\ alloc' = r.alloc
  /\ root' = r.root
  /\ ops' = ops + 1
  /\ last' = IF r.h = Heap THEN [call EXCEPT !.x = None, !.y = None] ELSE call
  /\ UNCHANGED <<pc, input, label, length, state, likelihoods, nodes, states,
               otherVars>>

\* the node without a parent above n
RECURSIVE Top(_, _)
Top(h, n) == IF h.parent[n] = None THEN n ELSE Top(h, h.parent[n])

\* The subtrees a caller attaches: the parentless nodes other than the one on
\* top of the tree itself (a detached piece).
Detached == {n \in Referable : parent[n] = None /\ n # Top(Heap, root)}

\* tree.attach(subtree, loc)
TreeAttach ==
  /\ pc = "built"
  /\ CanAllocate
  /\ \E subtree \in Detached, loc \in Referable :
       LET r == TreeAttachResult(Heap, alloc, root, subtree, loc)
       IN Apply(r, [op |-> "attach", x |-> subtree, y |-> loc,
                    err |-> r.err, ret |-> None])

\* tree.detach(subtree)
TreeDetach ==
  /\ pc = "built"
  /\ \E subtree \in Referable :
       LET r == TreeDetachResult(Heap, alloc, root, subtree)
       IN Apply(r, [op |-> "detach", x |-> subtree, y |-> None,
                    err |-> r.err, ret |-> IF r.err = "none" THEN r.root ELSE None])

\* tree.regraft(subtree, loc)
TreeRegraft ==
  /\ pc = "built"
  /\ CanAllocate
  /\ \E subtree \in Referable, loc \in Referable :
       LET r == TreeRegraftResult(Heap, alloc, root, subtree, loc)
       IN Apply(r, [op |-> "regraft", x |-> subtree, y |-> loc,
                    err |-> r.err, ret |-> None])

\* tree.root.swap(a, b)
Swap ==
  /\ pc = "built"
  /\ \E a \in Referable, b \in Referable :
       LET r == NodeSwap(Heap, a, b)
       IN Apply([err |-> r.err, h |-> r.h, alloc |-> alloc, root |-> root],
                [op |-> "swap", x |-> a, y |-> b, err |-> r.err, ret |-> None])

\* tree.root = tree.root.prune_and_regraft()
\* random.choice of an empty list raises IndexError before anything is touched.
PruneAndRegraft ==
  /\ pc = "built"
  /\ CanAllocate
  /\ LET candidates == {n \in Subtree(Heap, root) : ~IsRoot(Heap, n)}
         unchanged  == [h |-> Heap, alloc |-> alloc, root |-> root]
     IN IF candidates = {}
          THEN Apply([unchanged EXCEPT !.h = Heap],
                     [op |-> "prune_and_regraft", x |-> None, y |-> None,
                      err |-> "IndexError", ret |-> None])
        ELSE \E subtree \in candidates :
          LET d == NodeDetach(Heap, subtree)
          IN IF d.err # "none"
               THEN Apply(PruneAndRegraftResult(Heap, alloc, root, subtree, None),
                          [op |-> "prune_and_regraft", x |-> subtree, y |-> None,
                           err |-> d.err, ret |-> None])
             ELSE \E rejoin_at \in Subtree(d.h, d.ret) :
               LET r == PruneAndRegraftResult(Heap, alloc, root, subtree, rejoin_at)
               IN Apply(r, [op |-> "prune_and_regraft", x |-> subtree,
                            y |-> rejoin_at, err |-> r.err, ret |-> r.root])

Next ==
  \/ Build
  \/ TreeAttach
  \/ TreeDetach
  \/ TreeRegraft
  \/ Swap
  \/ PruneAndRegraft

Spec == Init /\ [][Next]_vars

(***************************************************************************)
(* Properties                                                               *)
(***************************************************************************)
TopologyOps == {"attach", "detach", "regraft", "swap", "prune_and_regraft"}

\* A tree has been built from a strictly binary parsed input.
BuiltBinary == pc = "built" /\ ParsedBinary(input)

\* The step is a topology operator call.
IsCall == ops' = ops + 1

\* The tree under n as a value: label, length and the children's trees in order.
RECURSIVE Struct(_, _)
Struct(h, n) ==
  <<label[n], length[n],
    [i \in 1..Len(h.children[n]) |-> Struct(h, h.children[n][i])]>>

TipLabels(h, n) == {label[m] : m \in Leaves(h, n)}

\* C1: after every successful topology operator call on a tree built from a
\* strictly binary input, is_binary at the tree's current root is true.
C1_BinaryAfterSuccess ==
  (BuiltBinary /\ last.op \in TopologyOps /\ last.err = "none")
    => IsBinary(Heap, root)

\* C2: a topology operator that raises leaves the tree exactly as it was: same
\* parent and child links, same child order, same root.
C2_FailsAtomically ==
  [][(BuiltBinary /\ IsCall /\ last'.err # "none")
       => (parent' = parent /\ children' = children /\ root' = root)]_vars

\* C3: after a successful detach of a non-root node of the tree, the reference
\* detach returned (stored in PhyloTree.root) has no parent and reaches every
\* remaining node; it is the former sibling when the detached node was a child
\* of the root, and the unchanged root otherwise.
C3_DetachReturnsRoot ==
  [][(/\ BuiltBinary /\ IsCall
      /\ last'.op = "detach" /\ last'.err = "none"
      /\ parent[root] = None /\ IsBinary(Heap, root)
      /\ last'.x \in Subtree(Heap, root))
       => LET x == last'.x
          IN /\ parent'[root'] = None
             /\ Subtree(Heap', root')
                  = Subtree(Heap, root) \ (Subtree(Heap, x) \cup {parent[x]})
             /\ root' = IF parent[x] = root THEN Siblings(Heap, x)[1] ELSE root]_vars

\* C4: attach(subtree, loc) raises and changes nothing whenever loc is not
\* reachable from the tree's current root.
C4_AttachRejectsNonMember ==
  [][(/\ BuiltBinary /\ IsCall
      /\ last'.op = "attach"
      /\ last'.y # None /\ last'.y \notin Subtree(Heap, root))
       => (/\ last'.err # "none"
           /\ parent' = parent /\ children' = children /\ root' = root)]_vars

\* C5: in a binary tree, detach(n) of a non-root node n followed at once by
\* attach of n at its original location gives a tree structurally equal to the
\* original.  Every node is tried as the location, and the whole remaining tree
\* (from the node above the former sibling) is compared.
C5_DetachAttachRestores ==
  (BuiltBinary /\ CanAllocate /\ parent[root] = None /\ IsBinary(Heap, root))
    => \A n \in Subtree(Heap, root) \ {root} :
         LET d == TreeDetachResult(Heap, alloc, root, n)
         IN /\ d.err = "none"
            /\ \E loc \in Allocated :
                 LET r == TreeAttachResult(d.h, d.alloc, d.root, n, loc)
                 IN /\ r.err = "none"
                    /\ Struct(r.h, Top(r.h, Siblings(Heap, n)[1]))
                         = Struct(Heap, root)

\* Every node has no or two children.
AllBinary == \A n \in Allocated : Len(children[n]) \in {0, 2}

\* C6: swap is its own inverse: in a binary tree, whenever
\* swap(a, b) succeeds, a second swap(a, b) succeeds and puts every node back
\* under its original parent in its original child slot.
C6_SwapTwiceRestoresSlots ==
  (pc = "built" /\ AllBinary)
    => \A a \in Referable, b \in Referable :
         LET r1 == NodeSwap(Heap, a, b)
         IN r1.err = "none"
              => LET r2 == NodeSwap(r1.h, a, b)
                 IN r2.err = "none" /\ r2.h = Heap

\* C7: prune-and-regraft never changes the number of tips or the set of tip
\* labels of the tree.
C7_PruneRegraftKeepsTips ==
  [][(/\ BuiltBinary /\ IsCall
      /\ last'.op = "prune_and_regraft" /\ last'.err = "none"
      /\ parent[root] = None /\ IsBinary(Heap, root))
       => LET top == Top(Heap', root')
          IN /\ TipLabels(Heap', top) = TipLabels(Heap, root)
             /\ Cardinality(Leaves(Heap', top)) = Cardinality(Leaves(Heap, root))]_vars

\* C8: in every reachable state detach of the tree's current root raises the
\* topology error, and so does swap of two nodes with the same parent or with
\* the current root as an argument.
C8_RootAndSiblingsRejected ==
  BuiltBinary
    => /\ TreeDetachResult(Heap, alloc, root, root).err = "PhyloNodeError"
       /\ \A a \in Allocated, b \in Allocated :
            (\/ (parent[a] # None /\ parent[a] = parent[b])
             \/ a = root
             \/ b = root)
              => NodeSwap(Heap, a, b).err = "PhyloNodeError"

\* C9: a parsed input that is not strictly binary is never built into a tree.
C9_NonBinaryRejected ==
  pc = "built" => ParsedBinary(input)

\* max(states.values()) + 1
NStates(st) ==
  1 + CHOOSE k \in {st[l] : l \in DOMAIN st} : \A l \in DOMAIN st : st[l] <= k

OneHot(s, k) == [i \in 1..k |-> IF i = s + 1 THEN 1 ELSE 0]

\* C10: after a build with a state assignment, every leaf whose label is
\* assigned has that state and the one-hot likelihoods vector of length
\* max(assigned index) + 1; every other node has an uncomputed (empty) vector.
C10_TipsGetOneHot ==
  (pc = "built" /\ ops = 0 /\ states # NoStates)
    => \A n \in Allocated :
         IF IsLeaf(Heap, n) /\ label[n] \in DOMAIN states
           THEN /\ state[n] = states[label[n]]
                /\ likelihoods[n] = OneHot(states[label[n]], NStates(states))
           ELSE likelihoods[n] = <<>>

\* C11: after every successful topology operator call, every node under the
\* tree's current root other than that root has a defined branch length >= 0,
\* and the current root has none (None, or the 0 that newick gives a node
\* written without a length).
C11_LengthsDefined ==
  (BuiltBinary /\ last.op \in TopologyOps /\ last.err = "none")
    => /\ \A n \in Subtree(Heap, root) \ {root} :
            length[n] # NoLength /\ length[n] >= 0
       /\ length[root] \in {NoLength, 0}

(***************************************************************************)
(* mkmodel.make_transition_matrix.  Q is a Python float: a binary floating  *)
(* point number, here with a mantissa of MantissaBits bits (53 in Python).  *)
(* The numbers are scaled to integers: every integer below 2^MantissaBits   *)
(* is a float, and a larger result is rounded to MantissaBits significant   *)
(* bits, ties to the even mantissa.                                         *)
(***************************************************************************)
\* bits of the float mantissa
MantissaBits == 3
\* the largest number of states k of a call
MaxK == 5

RECURSIVE Pow2(_)
Pow2(e) == IF e = 0 THEN 1 ELSE 2 * Pow2(e - 1)

\* the spacing of the floats around x >= 0
RECURSIVE Ulp(_, _)
Ulp(x, u) == IF x < u * Pow2(MantissaBits) THEN u ELSE Ulp(x, 2 * u)

\* x >= 0 rounded to the nearest float, ties to even
RoundFloat(x) ==
  LET u  == Ulp(x, 1)
      lo == (x \div u) * u
      r  == x - lo
  IN IF 2 * r < u THEN lo
     ELSE IF 2 * r > u THEN lo + u
     ELSE IF (lo \div u) % 2 = 0 THEN lo ELSE lo + u

\* the float product a * b of two floats >= 0
FloatMul(a, b) == RoundFloat(a * b)

\* the rates of the calls: every mantissa
Rates == 1..(Pow2(MantissaBits) - 1)

\* the diagonal with k in the place of k - 1
Diagonal_AllStates(Q, k) == 0 - FloatMul(k, Q)

\* d = -(k - 1) * Q
Diagonal(Q, k) == 0 - FloatMul(k - 1, Q)

\* row = [Q for i in range(k)]; row[i] = d   (i counts from 0)
MakeRow(Q, k, i) == [j \in 1..k |-> IF j = i + 1 THEN Diagonal(Q, k) ELSE Q]

InitMk ==
  /\ mk_pc = "loop"
  /\ mk_Q \in Rates
  /\ mk_k \in 2..MaxK
  /\ mk_i = 0
  /\ rows = <<>>
  /\ TreeOff /\ RateOff /\ TopoOff /\ PassOff

\* one pass of for i in range(k): rows.append(row)
MkAppendRow ==
  /\ mk_pc = "loop"
  /\ mk_i < mk_k
  /\ rows' = Append(rows, MakeRow(mk_Q, mk_k, mk_i))
  /\ mk_i' = mk_i + 1
  /\ UNCHANGED <<mk_pc, mk_Q, mk_k, exceptMk>>

\* return numpy.array(rows)
MkReturn ==
  /\ mk_pc = "loop"
  /\ mk_i = mk_k
  /\ mk_pc' = "done"
  /\ UNCHANGED <<mk_Q, mk_k, mk_i, rows, exceptMk>>

NextMk == MkAppendRow \/ MkReturn

SpecMk == InitMk /\ [][NextMk]_vars

\* the sum of a sequence of numbers, as a real number (no rounding)
RECURSIVE SumSeq(_, _)
SumSeq(s, i) == IF i > Len(s) THEN 0 ELSE s[i] + SumSeq(s, i + 1)

\* the matrix is k by k and every off-diagonal cell is Q
MkShape ==
  /\ Len(rows) = mk_k
  /\ \A i \in 1..mk_k :
       /\ Len(rows[i]) = mk_k
       /\ \A j \in 1..mk_k : i # j => rows[i][j] = mk_Q

Unit == 10
\* weight / 2 for the default weight = 0.2, in tenths
HalfWeight == 1
\* the largest argument samples of a run
MaxSamples == 3
\* the draws of stats.uniform(0, 1).rvs() for the decision, in halves: 0, 0.5, 1
Coin == 2

\* the support of stats.uniform(loc, scale): [loc, loc + scale]
UniformSupport(loc, scale) == loc..(loc + scale)

\* a flat prior density over every rate
UniformPdf_Flat(x) == 1

\* stats.uniform.pdf(x): the density of the uniform distribution on [0, 1]
UniformPdf(x) == IF 0 <= x /\ x <= Unit THEN 1 ELSE 0

\* tree.root.get_likelihood(q): a positive likelihood with one peak
GetLikelihood(q) == IF q <= 3 THEN 4 + q ELSE IF q <= 9 THEN 10 - q ELSE 1

\* stats.uniform(0, 1).rvs() < likely_ratio * prior_ratio for the draw u / Coin;
\* a ratio with a zero divisor is nan or inf * 0 and compares False
Accepts(u, qcur, qprop, lcur, lprop) ==
  /\ UniformPdf(qcur) # 0
  /\ lcur # 0
  /\ u * lcur * UniformPdf(qcur) < Coin * lprop * UniformPdf(qprop)

\* the trace of the accepted value: the proposal's likelihood after an acceptance
TraceEntry_Accepted(lcur, lprop, accepted) == IF accepted THEN lprop ELSE lcur

\* what likelihood.append records
TraceEntry(lcur, lprop, accepted) == lcur

InitRate ==
  /\ s_pc = "start"
  /\ samples \in 0..MaxSamples
  /\ s_i = 0
  /\ qcurrent = 0 /\ qproposal = 0 /\ lcurrent = 0 /\ lproposal = 0
  /\ posterior = <<>> /\ likelihood = <<>>
  /\ TreeOff /\ MkOff /\ TopoOff /\ PassOff

\* qcurrent = stats.uniform(0, 1).rvs()
DrawStart ==
  /\ s_pc = "start"
  /\ qcurrent' \in UniformSupport(0, Unit)
  /\ s_pc' = "propose"
  /\ UNCHANGED <<samples, s_i, qproposal, lcurrent, lproposal, posterior,
                 likelihood, exceptRate>>

\* the proposal and the two likelihoods of one iteration
Propose ==
  /\ s_pc = "propose"
  /\ s_i < samples
  /\ \E q \in UniformSupport(qcurrent - HalfWeight, qcurrent + HalfWeight) :
       /\ qproposal' = q
       /\ lproposal' = GetLikelihood(q)
  /\ lcurrent' = GetLikelihood(qcurrent)
  /\ s_pc' = "decide"
  /\ UNCHANGED <<samples, s_i, qcurrent, posterior, likelihood, exceptRate>>

\* the decision and the two appends of one iteration
Decide ==
  /\ s_pc = "decide"
  /\ \E u \in 0..Coin :
       LET accepted == Accepts(u, qcurrent, qproposal, lcurrent, lproposal)
           q        == IF accepted THEN qproposal ELSE qcurrent
       IN /\ qcurrent' = q
          /\ posterior' = Append(posterior, q)
          /\ likelihood' = Append(likelihood,
                                  TraceEntry(lcurrent, lproposal, accepted))
  /\ s_i' = s_i + 1
  /\ s_pc' = "propose"
  /\ UNCHANGED <<samples, qproposal, lcurrent, lproposal, exceptRate>>

\* return posterior, likelihood
RateReturn ==
  /\ s_pc = "propose"
  /\ s_i = samples
  /\ s_pc' = "done"
  /\ UNCHANGED <<samples, s_i, qcurrent, qproposal, lcurrent, lproposal,
                 posterior, likelihood, exceptRate>>

NextRate == DrawStart \/ Propose \/ Decide \/ RateReturn

SpecRate == InitRate /\ [][NextRate]_vars

\* one iteration of sample has just finished
IterationDone == s_i' = s_i + 1

C13_Step ==
  IterationDone
    => /\ Len(posterior') = Len(posterior) + 1
       /\ Len(likelihood') = Len(likelihood) + 1
       /\ posterior'[Len(posterior')] = qcurrent'
       /\ qcurrent' \in {qproposal, qcurrent}
       /\ likelihood'[Len(likelihood')] = GetLikelihood(qcurrent)

C13_Returned ==
  /\ s_pc = "done" => Len(posterior) = samples /\ Len(likelihood) = samples
  /\ \A i \in 2..Len(likelihood) :
       i <= Len(posterior) /\ likelihood[i] = GetLikelihood(posterior[i - 1])

C18_ProposalCentered ==
  s_pc = "decide"
    => /\ qcurrent - HalfWeight <= qproposal
       /\ qproposal <= qcurrent + HalfWeight

\* C19 as stated: a negative proposal can be drawn and accepted: where a
\* negative proposal has been drawn, some outcome of the acceptance draw
\* accepts it.
C19_NegativeAccepted ==
  (s_pc = "decide" /\ qproposal < 0)
    => \E u \in 0..Coin : Accepts(u, qcurrent, qproposal, lcurrent, lproposal)

\* C19 amended: sample draws negative proposals but never accepts one:
\* qcurrent and every posterior entry stay within the prior's interval [0, 1].
C19_NeverNegative ==
  /\ s_pc # "start" => qcurrent \in 0..Unit
  /\ \A i \in 1..Len(posterior) : posterior[i] \in 0..Unit

\* an iteration that drew a negative proposal has finished
C19_Witness ==
  /\ s_pc = "propose"
  /\ s_i >= 1
  /\ qproposal < 0
  /\ posterior[Len(posterior)] = 0

(***************************************************************************)
(* mcmc.sample_topology: the Metropolis chain over tree topologies.  A      *)
(* PhyloTree is the value [h, root, alloc]: its nodes' links, its root      *)
(* field and the number of nodes it holds; a deep copy is an equal value.   *)
(***************************************************************************)
TreeValue(h, rt, al) == [h |-> h, root |-> rt, alloc |-> al]

\* the trees sample_topology is called with
TopoInputs == {Cherry3, Ladder4}

\* workingcopy.random_node(2): two nodes of the tree's node list
RandomNodes == Range(nodes) \X Range(nodes)

\* t.root.get_likelihood(0.5): a positive likelihood that depends on the tree
TopoLikelihood(t) == 1 + Cardinality(Leaves(t.h, t.root))

\* copy.deepcopy(tree): the tree a proposal is made from
ProposalBase(tree, cur) == tree

\* the tree argument: the PhyloTree built from the input
TreeArgument == TreeValue(Heap, root, alloc)

InitTopo ==
  /\ \E T \in TopoInputs :
       LET t == FromString(T, NoStates)
       IN /\ pc = "built"
          /\ input = T
          /\ states = NoStates
          /\ parent = t.parent
          /\ children = t.children
          /\ label = t.label
          /\ length = t.length
          /\ state = t.state
          /\ likelihoods = t.likelihoods
          /\ alloc = t.alloc
          /\ root = t.root
          /\ nodes = PreOrder([parent |-> t.parent, children |-> t.children], t.root)
          /\ current = TreeValue([parent |-> t.parent, children |-> t.children],
                                 t.root, t.alloc)
  /\ ops = 0
  /\ last = [NoCall EXCEPT !.op = "from_string", !.ret = 1]
  /\ t_pc = "loop"
  /\ t_samples \in 0..MaxSamples
  /\ t_i = 0
  /\ workingcopy = None
  /\ t_lcurrent = 0 /\ t_lproposal = 0
  /\ t_posterior = <<>> /\ t_likelihood = <<>>
  /\ MkOff /\ RateOff /\ PassOff

\* lcurrent, the working copy, its regraft and lproposal
TopoPropose ==
  /\ t_pc = "loop"
  /\ t_i < t_samples
  /\ t_lcurrent' = TopoLikelihood(current)
  /\ \E pair \in RandomNodes :
       LET base == ProposalBase(TreeArgument, current)
           r    == TreeRegraftResult(base.h, base.alloc, base.root, pair[1], pair[2])
       IN IF r.err # "none"
            THEN /\ t_pc' = "raised"
                 /\ UNCHANGED <<workingcopy, t_lproposal>>
            ELSE /\ t_pc' = "decide"
                 /\ workingcopy' = TreeValue(r.h, r.root, r.alloc)
                 /\ t_lproposal' = TopoLikelihood(TreeValue(r.h, r.root, r.alloc))
  /\ UNCHANGED <<t_samples, t_i, current, t_posterior, t_likelihood, exceptTopo>>

\* the decision and the two appends
TopoDecide ==
  /\ t_pc = "decide"
  /\ \E u \in 0..Coin :
       IF u * t_lcurrent < Coin * t_lproposal
         THEN /\ current' = workingcopy
              /\ t_likelihood' = Append(t_likelihood, t_lproposal)
         ELSE /\ current' = current
              /\ t_likelihood' = Append(t_likelihood, t_lcurrent)
  /\ t_posterior' = Append(t_posterior, current')
  /\ t_i' = t_i + 1
  /\ t_pc' = "loop"
  /\ UNCHANGED <<t_samples, workingcopy, t_lcurrent, t_lproposal, exceptTopo>>

\* return posterior, likelihood
TopoReturn ==
  /\ t_pc = "loop"
  /\ t_i = t_samples
  /\ t_pc' = "done"
  /\ UNCHANGED <<t_samples, t_i, current, workingcopy, t_lcurrent, t_lproposal,
                 t_posterior, t_likelihood, exceptTopo>>

NextTopo == TopoPropose \/ TopoDecide \/ TopoReturn

SpecTopo == InitTopo /\ [][NextTopo]_vars

\* the tree t below its top node, as a value
TopoShape(t) == Struct(t.h, Top(t.h, t.root))

\* w is a copy of t with one regraft applied
OneRegraftFrom(t, w) ==
  \E subtree \in Nodes, loc \in Nodes :
    LET r == TreeRegraftResult(t.h, t.alloc, t.root, subtree, loc)
    IN /\ r.err = "none"
       /\ Struct(r.h, r.root) = Struct(w.h, w.root)
       /\ TopoShape(TreeValue(r.h, r.root, r.alloc)) = TopoShape(w)

\* C14: in every iteration the proposal is a copy of the chain's current tree
\* with one prune-and-regraft applied; an acceptance makes the proposal the
\* current tree, a rejection leaves the current tree as it is.
C14_ProposalFromCurrent ==
  [][/\ (t_pc = "loop" /\ t_pc' = "decide")
          => OneRegraftFrom(current, workingcopy')
     /\ (t_pc = "decide" /\ t_pc' = "loop")
          => current' \in {workingcopy, current}]_vars

(***************************************************************************)
(* The pruning pass: likelihood.tree_likelihood on a parsed newick tree and *)
(* mkmodel.subtree_likelihood on a PhyloNode tree of the same shape.  The   *)
(* rate matrix is the 3-state equal-rate matrix with rate 1.  A likelihood  *)
(* is a fixed-point number counted in millionths; a branch length of the    *)
(* trees of a pass is counted in halves.                                    *)
(***************************************************************************)
\* 1.0 in millionths
One == 1000000
\* the thousand the fixed-point product splits a factor by
Kilo == 1000
\* the states of the rate matrix
NumStates == 3

\* a * b for fixed-point a, b <= One, without leaving 32 bits
FixMul(a, b) == (a * (b \div Kilo)) \div Kilo + (a * (b % Kilo)) \div One

\* exp(-3 * t) in millionths for t = 0, 0.5, 1, ..., 3
ExpTable == <<1000000, 223130, 49787, 11109, 2479, 553, 123>>

\* the transition probabilities of a branch of length zero, whatever its length
TraitStateProbs_Identity(t, i, j) == IF i = j THEN One ELSE 0

\* scipy.linalg.expm(Q * t)[i][j] for the equal-rate matrix Q, t in halves:
\* 1/3 + 2/3 exp(-3t) on the diagonal, 1/3 - 1/3 exp(-3t) off it
TraitStateProbs(t, i, j) ==
  IF i = j THEN (One + 2 * ExpTable[t + 1]) \div NumStates
  ELSE (One - ExpTable[t + 1]) \div NumStates

\* sum([x * P[i][state] for i, x in enumerate(tip_state_probs)])
RECURSIVE BranchSum(_, _, _, _)
BranchSum(st, v, t, i) ==
  IF i > Len(v) THEN 0
  ELSE FixMul(v[i], TraitStateProbs(t, i, st)) + BranchSum(st, v, t, i + 1)

\* likelihood.branch_likelihood(state, tip_state_probs, branch_len, Q)
BranchLikelihood(st, v, t) == BranchSum(st, v, t, 1)

\* likelihood.node_likelihood(Q, left_len, right_len, left_state_p, right_state_p)
NodeLikelihood(left_len, right_len, left_state_p, right_state_p) ==
  [i \in 1..Len(left_state_p) |->
     FixMul(BranchLikelihood(i, left_state_p, left_len),
            BranchLikelihood(i, right_state_p, right_len))]

\* sum([prior * l for l in v]) with prior = 1 / n
RECURSIVE PriorSum(_, _, _)
PriorSum(v, n, i) ==
  IF i > Len(v) THEN 0 ELSE v[i] \div n + PriorSum(v, n, i + 1)

\* "((((A:1.0,B:1.0):0.5,C:1.5):1.0,(D:0.5,E:0.5)):2.0,F:2.5)"
Fixture6 ==
  [name        |-> <<NoLabel, NoLabel, "F", NoLabel, NoLabel, NoLabel, "C",
                     "A", "B", "D", "E">>,
   length      |-> <<0, 4, 5, 2, 0, 1, 3, 2, 2, 1, 1>>,
   descendants |-> << <<2, 3>>, <<4, 5>>, <<>>, <<6, 7>>, <<10, 11>>, <<8, 9>>,
                      <<>>, <<>>, <<>>, <<>>, <<>> >>]

\* "(D:3,(C:2,(A:1,B:1):1):1)"
RevLadder4 ==
  [name        |-> <<NoLabel, "D", NoLabel, "C", NoLabel, "A", "B">>,
   length      |-> <<0, 3, 1, 2, 1, 1, 1>>,
   descendants |-> << <<2, 3>>, <<>>, <<4, 5>>, <<>>, <<6, 7>>, <<>>, <<>> >>]

\* TEST_TIPS of the tests
FixtureTips ==
  [l \in {"A", "B", "C", "D", "E", "F"} |->
     CASE l = "A" -> 0 [] l = "B" -> 1 [] l = "C" -> 0
       [] l = "D" -> 2 [] l = "E" -> 2 [] OTHER -> 1]

\* a tree's nodes, leaves and parent links
TNodes(T) == 1..Len(T.name)
TIsLeaf(T, n) == Len(T.descendants[n]) = 0
TAncestor(T, n) ==
  IF \E m \in TNodes(T) : n \in Range(T.descendants[m])
    THEN CHOOSE m \in TNodes(T) : n \in Range(T.descendants[m])
    ELSE None

\* the pre-order walk of a parsed tree
RECURSIVE TWalk(_, _)
RECURSIVE TWalkSeq(_, _, _)
TWalkSeq(T, kids, i) ==
  IF i > Len(kids) THEN <<>> ELSE TWalk(T, kids[i]) \o TWalkSeq(T, kids, i + 1)
TWalk(T, n) == <<n>> \o TWalkSeq(T, T.descendants[n], 1)

\* tree.get_leaves()
GetLeaves(T) == SelectSeq(TWalk(T, 1), LAMBDA n : TIsLeaf(T, n))

\* anytree LevelOrderIter: level by level, each level left to right
RECURSIVE LevelOrder(_, _)
RECURSIVE KidsOf(_, _, _)
KidsOf(T, level, i) ==
  IF i > Len(level) THEN <<>>
  ELSE T.descendants[level[i]] \o KidsOf(T, level, i + 1)
LevelOrder(T, level) ==
  IF level = <<>> THEN <<>> ELSE level \o LevelOrder(T, KidsOf(T, level, 1))

\* node.reverse_level_walk(): the level order walk backwards
ReverseLevelWalk(T) == Reverse(LevelOrder(T, <<1>>))

\* n_states = max(tip_states.values()) + 1
NumTipStates(tips) == NStates(tips)

\* [1 if i == state_index else 0 for i in range(n_states)]
TipLikelihoods(s, n) == [i \in 1..n |-> IF i = s + 1 THEN One ELSE 0]

\* the vectors before the pass: an assigned tip has its one-hot vector, a tip
\* without a state has none, an internal node has the vector other
StartVectors(T, tips, other) ==
  [n \in TNodes(T) |->
     IF ~TIsLeaf(T, n) THEN other
     ELSE IF T.name[n] \in DOMAIN tips
       THEN TipLikelihoods(tips[T.name[n]], NumTipStates(tips))
     ELSE <<>>]

\* PhyloNode.likelihoods of a node nothing was assigned to
NoVector == <<>>
\* a vector left on an internal node by an earlier computation
StaleVector == [i \in 1..NumStates |-> 0]

\* the calls of a pass: tree_likelihood(tree, tip_states, Q) keeps its vectors
\* in a dictionary of its own, subtree_likelihood(node, Q) finds them on the
\* nodes, where an internal node has no vector or a stale one
PassTrees == {Fixture6, Cherry3, Ladder4, Balanced4, RevLadder4, Unary3, Ternary3}
TipsOf(T) == IF T = Fixture6 THEN {FixtureTips} ELSE {AllTips, SomeTips}
PassInputs ==
  {in \in [engine : {"queue", "level"}, tree : PassTrees,
           tips : {AllTips, SomeTips, FixtureTips},
           other : {NoVector, StaleVector}] :
     /\ in.tips \in TipsOf(in.tree)
     /\ in.engine = "queue" => in.other = NoVector}

\* the state after lines 44-53 of tree_likelihood, or at the call of
\* subtree_likelihood
InitPass ==
  /\ TreeOff /\ MkOff /\ RateOff /\ TopoOff
  /\ \E in \in PassInputs :
       /\ p_engine = in.engine
       /\ p_tree = in.tree
       /\ p_tips = in.tips
       /\ vec = StartVectors(in.tree, in.tips, in.other)
       /\ queue = IF in.engine = "queue" THEN GetLeaves(in.tree)
                  ELSE ReverseLevelWalk(in.tree)
  /\ p_pc = "pass"
  /\ p_node = None
  /\ p_log = <<>>
  /\ p_err = "none"
  /\ p_result = None

\* id(node) in likelihoods
Computed(v, n) == v[n] # NoVector

\* one turn of the loop of tree_likelihood
QueuePop ==
  /\ p_pc = "pass" /\ p_engine = "queue" /\ queue # <<>>
  /\ LET node == Head(queue)
         rest == Tail(queue)
         anc  == TAncestor(p_tree, node)
         kids == p_tree.descendants[node]
     IN /\ p_node' = node
        /\ queue' = IF anc # None /\ anc \notin Range(rest)
                      THEN Append(rest, anc) ELSE rest
        /\ IF kids = <<>>
             THEN UNCHANGED <<vec, p_log, p_pc, p_err>>
           ELSE IF Len(kids) # 2
             THEN /\ p_pc' = "raised"
                  /\ p_err' = "ValueError"
                  /\ UNCHANGED <<vec, p_log>>
           ELSE IF Computed(vec, kids[1]) /\ Computed(vec, kids[2])
             THEN /\ vec' = [vec EXCEPT ![node] =
                              NodeLikelihood(p_tree.length[kids[1]],
                                             p_tree.length[kids[2]],
                                             vec[kids[1]], vec[kids[2]])]
                  /\ p_log' = Append(p_log, node)
                  /\ UNCHANGED <<p_pc, p_err>>
           ELSE UNCHANGED <<vec, p_log, p_pc, p_err>>
  /\ UNCHANGED <<p_engine, p_tree, p_tips, p_result>>
  /\ UNCHANGED exceptPass

\* lines 66-67 of tree_likelihood
QueueReturn ==
  /\ p_pc = "pass" /\ p_engine = "queue" /\ queue = <<>>
  /\ IF Computed(vec, 1)
       THEN /\ p_pc' = "returned"
            /\ p_result' = PriorSum(vec[1], NumTipStates(p_tips), 1)
            /\ UNCHANGED p_err
       ELSE /\ p_pc' = "raised"
            /\ p_err' = "KeyError"
            /\ UNCHANGED p_result
  /\ UNCHANGED <<p_engine, p_tree, p_tips, vec, queue, p_node, p_log>>
  /\ UNCHANGED exceptPass

\* mkmodel.node_state_likelihoods(node, matrix)
NodeStateLikelihoods(v, t) ==
  [st \in 1..Len(v) |-> BranchSum(st, v, t, 1)]

\* [r * l for r, l in zip(lls, lrs)]
ZipProduct(lls, lrs) ==
  [i \in 1..(IF Len(lls) < Len(lrs) THEN Len(lls) ELSE Len(lrs)) |->
     FixMul(lls[i], lrs[i])]

\* mkmodel.combine_likelihoods(node, matrix) of a node with two children
CombineLikelihoods(T, v, n) ==
  LET kids == T.descendants[n]
  IN ZipProduct(NodeStateLikelihoods(v[kids[1]], T.length[kids[1]]),
                NodeStateLikelihoods(v[kids[2]], T.length[kids[2]]))

\* one turn of the loop of subtree_likelihood; the matrix was made with the
\* length the root's vector had at the call, which is the length it still has
\* while the walk has not reached the root.  With no vector on the root the
\* matrix is empty and expm raises on it; "ValueError" names that exception
\* as well as the one of the unpacking of a list that has not two members
LevelVisit ==
  /\ p_pc = "pass" /\ p_engine = "level" /\ queue # <<>>
  /\ LET node == Head(queue)
         kids == p_tree.descendants[node]
     IN /\ p_node' = node
        /\ queue' = Tail(queue)
        /\ IF kids = <<>>
             THEN UNCHANGED <<vec, p_log, p_pc, p_err>>
           ELSE IF Len(vec[1]) # NumStates \/ Len(kids) # 2
             THEN /\ p_pc' = "raised"
                  /\ p_err' = "ValueError"
                  /\ UNCHANGED <<vec, p_log>>
           ELSE /\ vec' = [vec EXCEPT ![node] = CombineLikelihoods(p_tree, vec, node)]
                /\ p_log' = Append(p_log, node)
                /\ UNCHANGED <<p_pc, p_err>>
  /\ UNCHANGED <<p_engine, p_tree, p_tips, p_result>>
  /\ UNCHANGED exceptPass

\* lines 49-50 of subtree_likelihood
LevelReturn ==
  /\ p_pc = "pass" /\ p_engine = "level" /\ queue = <<>>
  /\ IF vec[1] # NoVector
       THEN /\ p_pc' = "returned"
            /\ p_result' = PriorSum(vec[1], Len(vec[1]), 1)
            /\ UNCHANGED p_err
       ELSE /\ p_pc' = "raised"
            /\ p_err' = "ZeroDivisionError"
            /\ UNCHANGED p_result
  /\ UNCHANGED <<p_engine, p_tree, p_tips, vec, queue, p_node, p_log>>
  /\ UNCHANGED exceptPass

NextPass == QueuePop \/ QueueReturn \/ LevelVisit \/ LevelReturn

SpecPass == InitPass /\ [][NextPass]_vars

\* the shape of the tree of the pass
TInternal(T) == {n \in TNodes(T) : ~TIsLeaf(T, n)}
TBinary(T) == \A n \in TInternal(T) : Len(T.descendants[n]) = 2
TipsAssigned(T, tips) ==
  \A n \in TNodes(T) : TIsLeaf(T, n) => T.name[n] \in DOMAIN tips
PassEnded == p_pc \in {"returned", "raised"}

\* C15: a pass that reaches an internal node whose children do not both have
\* a computed vector (a tip without a state, a node without exactly two
\* children) fails with a likelihood error: it ends with no other error and
\* returns no likelihood.
C15_FailsWithLikelihoodError ==
  (PassEnded /\ ~(TBinary(p_tree) /\ TipsAssigned(p_tree, p_tips)))
    => (p_pc = "raised" /\ p_err = "LikelihoodError")

\* a likelihood in millionths, rounded to four decimals
Round4(x) == (x + 50) \div 100

FixtureCall ==
  p_engine = "queue" /\ p_tree = Fixture6 /\ p_tips = FixtureTips

\* C16: the likelihood of the fixture tree with its tip states under the
\* 3-state equal-rate matrix with rate 1, rounded to four decimals, is 0.0015.
C16_FixtureLikelihood ==
  (FixtureCall /\ PassEnded) => (p_pc = "returned" /\ Round4(p_result) = 15)

C16_Witness == FixtureCall /\ p_pc = "returned" /\ Len(p_log) = 5

\* the nodes whose vector one step replaces
Assigned == {n \in TNodes(p_tree) : vec'[n] # vec[n]}
HasVector(n) == TIsLeaf(p_tree, n) \/ n \in Range(p_log)

C17_Step ==
  (p_pc = "pass" /\ TBinary(p_tree) /\ TipsAssigned(p_tree, p_tips))
    => \A n \in Assigned :
         /\ ~TIsLeaf(p_tree, n)
         /\ \A c \in Range(p_tree.descendants[n]) : HasVector(c)
         /\ n \notin Range(p_log)

C17_End ==
  (PassEnded /\ TBinary(p_tree) /\ TipsAssigned(p_tree, p_tips))
    => /\ p_pc = "returned"
       /\ Range(p_log) = TInternal(p_tree)
       /\ p_log[Len(p_log)] = 1

\* C17: in a pass over a binary tree whose tips all have a state, by either
\* engine, a vector is assigned to an internal node only after both its
\* children have theirs, no tip's vector is replaced, and the pass ends by
\* returning, with a vector assigned to every internal node, the root's last.
C17_BottomUpOrder == []C17_End /\ [][C17_Step]_vars
====
